---- MODULE Spec2Model ----
(***************************************************************************)
(* Transform state and synchronisation model of the controller studio:    *)
(* the useObjectTransforms hook (transform store, storage mirror,         *)
(* connection poll, import / export / reset against the configuration     *)
(* document), the ControlPanel handlers that call it, and the standalone  *)
(* per-object controllers with the configSync utilities.                  *)
(*                                                                         *)
(* Numbers are fixed-point thousandths (1.1 is 1100); angles in radians  *)
(* are in units of 1e-8 rad and angles in degrees in units of 1e-6        *)
(* degree.  Strings held in localStorage are sequences; the empty         *)
(* sequence is an absent key (getItem returns null).                      *)
(***************************************************************************)
EXTENDS Integers, Sequences, FiniteSets, TLC

VARIABLES
    transforms,        \* useState<ObjectTransforms>: object -> transform record
    connectionStatus,  \* useState<'connected' | 'disconnected'>
    storage,           \* localStorage: key -> string (<<>> when absent)
    doc,               \* id of the current content of objectTransforms.json
    inflight,          \* suspended async operations (awaiting fetch / clipboard)
    clipboard,         \* system clipboard text (<<>> when nothing was written)
    config,            \* per-object controllers: useState(config) of each controller
    now,               \* Date.now() in ms
    last,              \* the handler step that ran last: kind, object, outcome
    effects,           \* side effects of that step, in program order
    calls,             \* number of user actions so far
    hist,              \* history: per object, its transform at the last wholesale
                       \* replacement and the fields updates named since then
    page,              \* the page that is mounted: the studio or the controllers
    polledAt,          \* Date.now() when checkConnection last ran
    strict,            \* React.StrictMode is in effect (a development build)
    httpCache,         \* the browser's cached response for the document's plain URL
    activeObject,      \* ControllerStudio: useState of the tab that is selected
    rendered,          \* the transforms prop of the render that is on screen
    exported,          \* ControlPanel: useState(exported), the COPIED label
    imported,          \* ControlPanel: useState(imported), the LOADED label
    timers,            \* pending setTimeout callbacks of the panel
    input              \* the control input that was handled last

\* the state of the control panel (ControlPanel, ObjectControls)
panelVars == <<activeObject, rendered, exported, imported, timers, input>>

vars == <<transforms, connectionStatus, storage, doc, inflight, clipboard,
          config, now, last, effects, calls, hist, page, polledAt, strict, httpCache,
          panelVars>>

----------------------------------------------------------------------------
(* Bounds of the model *)

MaxInflight == 2
MaxCalls == 3
MaxNow == 7000
TickMs == 1000

----------------------------------------------------------------------------
(* Object kinds, transform shapes, storage keys *)

Objects == {"truck", "fuelSensor", "telematicsDisplay", "logo"}

\* interface ObjectTransforms: the fields of each object, in declaration order
Shape(o) ==
    CASE o = "truck"             -> <<"position", "rotation", "scale">>
      [] o = "fuelSensor"        -> <<"position", "rotation", "scale", "probeLength">>
      [] o = "telematicsDisplay" -> <<"position", "rotation", "size">>
      [] o = "logo"              -> <<"position", "rotation", "scale", "offsetZ", "visible">>

KeyOrder == <<"position", "rotation", "scale", "size", "probeLength", "offsetZ", "visible">>

STORAGE_KEYS ==
    [TRUCK |-> "truck-config", FUEL_SENSOR |-> "fuel-sensor-config",
     TELEMATICS |-> "telematics-display-config", LOGO |-> "logo-config"]

\* the mutant maps the logo to the truck's slot
StorageKeyCollide(o) ==
    CASE o = "truck"             -> STORAGE_KEYS.TRUCK
      [] o = "fuelSensor"        -> STORAGE_KEYS.FUEL_SENSOR
      [] o = "telematicsDisplay" -> STORAGE_KEYS.TELEMATICS
      [] o = "logo"              -> STORAGE_KEYS.TRUCK

\* the storageKey lookup table of updateTransform and resetToDefault
StorageKey(o) ==
    CASE o = "truck"             -> STORAGE_KEYS.TRUCK
      [] o = "fuelSensor"        -> STORAGE_KEYS.FUEL_SENSOR
      [] o = "telematicsDisplay" -> STORAGE_KEYS.TELEMATICS
      [] o = "logo"              -> STORAGE_KEYS.LOGO

ControllerTimestampKey == "controller-update-timestamp"
MainPageTimestampKey == "last-main-page-update"

StorageKeys ==
    {StorageKey(o) : o \in Objects} \cup {ControllerTimestampKey, MainPageTimestampKey}

----------------------------------------------------------------------------
(* Configuration documents *)

\* numbers outside the range of the thousandths stand for the two values
\* that are not finite numbers: parseFloat('') and the JSON literal null
NaN == 900001
Null == 900002

\* config/objectTransforms.json as bundled at build time
BundledConfig ==
    [telematicsDisplay |->
        [position |-> <<-1000, 10300, 3200>>, rotation |-> <<-291400000, -172700000, 186700000>>,
         size |-> <<8000, 4500>>],
     fuelSensor |->
        [position |-> <<3100, 600, -5000>>, rotation |-> <<0, 0, 0>>,
         scale |-> 1000, probeLength |-> 1300],
     truck |->
        [position |-> <<1100, -1100, -5300>>, rotation |-> <<0, 314100000, 0>>,
         scale |-> <<1500, 1500, 1500>>],
     logo |->
        [position |-> <<0, 2250, 5350>>, rotation |-> <<0, 0, 1700000>>,
         scale |-> <<1000, 960>>, offsetZ |-> -500, visible |-> TRUE]]

\* the document after the user pasted an export with other values into it
EditedConfig ==
    [telematicsDisplay |->
        [position |-> <<-1000, 9000, 3200>>, rotation |-> <<-291400000, -172700000, 186700000>>,
         size |-> <<6000, 4000>>],
     fuelSensor |->
        [position |-> <<3100, 600, -5000>>, rotation |-> <<0, 0, 0>>,
         scale |-> 3000, probeLength |-> 500],
     truck |->
        [position |-> <<2000, -1100, -5300>>, rotation |-> <<0, 314100000, 0>>,
         scale |-> <<1000, 1000, 1000>>],
     logo |->
        [position |-> <<0, 2250, 5350>>, rotation |-> <<0, 0, 1700000>>,
         scale |-> <<1000, 960>>, offsetZ |-> -200, visible |-> FALSE]]

\* a document whose logo section was deleted
NoLogoConfig == [o \in Objects \ {"logo"} |-> BundledConfig[o]]

\* the document after the user pasted into it the export of a fuel sensor
\* with scale 2, and of a logo whose x position was NaN
PastedScaleConfig == [BundledConfig EXCEPT !.fuelSensor.scale = 2000]
PastedNullConfig == [BundledConfig EXCEPT !.logo.position = <<Null, 2250, 5350>>]

\* documents in which a member of a section was deleted: the fuel sensor's
\* scale, the truck's position
NoScaleConfig ==
    [BundledConfig EXCEPT !.fuelSensor =
        [position |-> <<3100, 600, -5000>>, rotation |-> <<0, 0, 0>>, probeLength |-> 1300]]
NoPositionConfig ==
    [BundledConfig EXCEPT !.truck =
        [rotation |-> <<0, 314100000, 0>>, scale |-> <<1500, 1500, 1500>>]]

TypedDocuments == <<BundledConfig, EditedConfig, NoLogoConfig>>
PastedDocuments == <<PastedScaleConfig, PastedNullConfig>>
PartialDocuments == <<NoScaleConfig, NoPositionConfig>>
Documents == TypedDocuments \o PastedDocuments \o PartialDocuments
TypedDocIds == 1..Len(TypedDocuments)
PartialDocIds == (Len(TypedDocuments) + Len(PastedDocuments) + 1)..Len(Documents)
DocIds == 1..Len(Documents)
FetchFailed == 0    \* the fetch rejected, or the body did not parse as JSON

\* config.<o> of a parsed document: the section, or absent (undefined)
HasKey(body, o) == body \in DocIds /\ o \in DOMAIN Documents[body]

----------------------------------------------------------------------------
(* JSON.stringify of a transform: the members in key order, as text *)

SeqOfKeys(t) == SelectSeq(KeyOrder, LAMBDA f : f \in DOMAIN t)

\* JSON.stringify of a number: NaN is written as null
JSONNumber(v) == IF v = NaN THEN Null ELSE v

\* the member f of transform t holds an array (scale is a number in the
\* fuel sensor only)
HoldsArray(t, f) ==
    f \in {"position", "rotation", "size"} \/ (f = "scale" /\ "probeLength" \notin DOMAIN t)

JSONValue(t, f) ==
    IF f = "visible" THEN t[f]
    ELSE IF HoldsArray(t, f) THEN [i \in 1..Len(t[f]) |-> JSONNumber(t[f][i])]
    ELSE JSONNumber(t[f])

Stringify(t) ==
    [i \in 1..Len(SeqOfKeys(t)) |-> <<SeqOfKeys(t)[i], JSONValue(t, SeqOfKeys(t)[i])>>]

\* JSON.parse of a serialised object: each member's text parsed back to
\* the value it denotes (a number, null, a boolean, an array, an object)
MemberNames(text) == {text[i][1] : i \in 1..Len(text)}
MemberText(text, k) == text[CHOOSE i \in 1..Len(text) : text[i][1] = k][2]

ParseTransform(text) == [f \in MemberNames(text) |-> MemberText(text, f)]
ParseJSON(text) == [k \in MemberNames(text) |-> ParseTransform(MemberText(text, k))]

\* Date.now().toString() and parseInt
NumToString(n) == <<n>>
ParseInt(s) == s[1]

Range(q) == {q[i] : i \in 1..Len(q)}

----------------------------------------------------------------------------
(* Arithmetic of the controls: degrees and radians, input texts *)

\* round(a * b / c) for a >= 0, without leaving the 32-bit integers
MulDiv(a, b, c) == (a \div c) * b + ((a % c) * b + c \div 2) \div c

\* v * b / c rounded to the nearest unit; NaN stays NaN
Times(v, b, c) ==
    IF v = NaN THEN NaN ELSE IF v < 0 THEN 0 - MulDiv(0 - v, b, c) ELSE MulDiv(v, b, c)

\* Math.PI / 180, from units of 1e-6 degree to units of 1e-8 rad: pi / 1.8,
\* which is 11397 / 6530 to nine digits
PiNum == 11397
PiDen == 6530

\* the mutant stores the degrees as they were entered
DegreesKept(degrees) == degrees

\* value * (Math.PI / 180)
ToRadians(degrees) == Times(degrees, PiNum, PiDen)

\* value * (180 / Math.PI)
ToDegrees(radians) == Times(radians, PiDen, PiNum)

\* value.toFixed(decimals) of an angle in degrees: the nearest multiple of
\* 10^(6 - decimals) units
toFixed(v, decimals) ==
    LET unit == 10 ^ (6 - decimals)
    IN  IF v = NaN THEN NaN
        ELSE IF v < 0 THEN 0 - ((0 - v + unit \div 2) \div unit) * unit
        ELSE ((v + unit \div 2) \div unit) * unit

\* e.target.value: the text of a number, or a text that is no number (the
\* field was emptied)
EmptyText == <<>>
parseFloat(text) == IF text = EmptyText THEN NaN ELSE text[1]

\* a || b for numbers: b when a is NaN or 0
OrElse(a, b) == IF a = NaN \/ a = 0 THEN b ELSE a

----------------------------------------------------------------------------
(* Records that the actions leave behind *)

Effect(e, k, v) == [eff |-> e, key |-> k, value |-> v]
\* body: the document a resolving handler had read (NoRead when it read none)
NoRead == -1
\* raced: another operation that was in flight with this one has written an
\* object this one writes
StepRead(k, o, ok, c, b) ==
    [kind |-> k, obj |-> o, ok |-> ok, cause |-> c, body |-> b, raced |-> FALSE]
Step(k, o, ok, c) == StepRead(k, o, ok, c, NoRead)
Op(k, o, st, b, p) ==
    [kind |-> k, obj |-> o, stage |-> st, body |-> b, payload |-> p, raced |-> FALSE]

\* localStorage after the setItem calls among the effects, in order
RECURSIVE Apply(_, _)
Apply(st, effs) ==
    IF effs = <<>> THEN st
    ELSE LET e == Head(effs)
         IN  Apply(IF e.eff = "setItem" THEN [st EXCEPT ![e.key] = e.value] ELSE st,
                   Tail(effs))

RemoveAt(q, i) == [j \in 1..(Len(q) - 1) |-> IF j < i THEN q[j] ELSE q[j + 1]]

\* the objects whose transform a document operation sets when it completes
Writes(op) ==
    IF op.kind \in {"load", "import"} THEN {"truck", "fuelSensor", "telematicsDisplay", "logo"}
    ELSE IF op.kind = "reset" THEN {op.obj}
    ELSE {}

\* the operations left in flight when the i-th has completed; when it wrote,
\* those that write one of its objects have been raced
Completed(q, i, wrote) ==
    [j \in 1..(Len(q) - 1) |->
        LET op == IF j < i THEN q[j] ELSE q[j + 1]
        IN  IF wrote /\ Writes(op) \cap Writes(q[i]) # {}
            THEN [op EXCEPT !.raced = TRUE] ELSE op]

\* the step of a completing operation, with its race recorded
StepOf(op, ok, c) == [StepRead(op.kind, op.obj, ok, c, op.body) EXCEPT !.raced = op.raced]

----------------------------------------------------------------------------
(* useObjectTransforms: mirror to storage *)

\* the mutant dispatches the event before the timestamp is written
SyncDispatchEarly(key, value, t) ==
    << Effect("setItem", key, Stringify(value)),
       Effect("dispatch", key, Stringify(value)),
       Effect("setItem", ControllerTimestampKey, NumToString(t)) >>

\* the mutant stamps the main application's key
SyncStampsMainPage(key, value, t) ==
    << Effect("setItem", key, Stringify(value)),
       Effect("setItem", MainPageTimestampKey, NumToString(t)),
       Effect("dispatch", key, Stringify(value)) >>

\* syncToStorage(key, value) at Date.now() = t: its effects in program order
syncToStorage(key, value, t) ==
    << Effect("setItem", key, Stringify(value)),
       Effect("setItem", ControllerTimestampKey, NumToString(t)),
       Effect("dispatch", key, Stringify(value)) >>

----------------------------------------------------------------------------
(* useObjectTransforms: update *)

\* the mutant replaces the object's transform by the update
MergeReplace(prev, updates) == updates

\* { ...prev[object], ...updates }
Merge(prev, updates) ==
    [f \in DOMAIN prev \cup DOMAIN updates |->
        IF f \in DOMAIN updates THEN updates[f] ELSE prev[f]]

\* the setTransforms updater of updateTransform: { ...prev, [object]: merged }
Updater(prev, object, updates) ==
    [prev EXCEPT ![object] = Merge(prev[object], updates)]

\* the partial updates the control surface sends for each object
Updates(o) ==
    CASE o = "truck"             -> {[position |-> <<1100, 0, -5300>>]}
      [] o = "fuelSensor"        -> {[scale |-> 2000], [probeLength |-> 800]}
      [] o = "telematicsDisplay" -> {[size |-> <<8000, 5000>>]}
      [] o = "logo"              -> {[visible |-> FALSE]}

----------------------------------------------------------------------------
(* useObjectTransforms: document operations *)

\* what loadFromJSON / importConfig build from the parsed document: the
\* fields of each shape (a member the document lacks is undefined: absent)
FromConfig(cfg) ==
    [o \in Objects |->
        [f \in Range(Shape(o)) \cap DOMAIN cfg[o] |-> cfg[o][f]]]

ArrayFields == {"position", "rotation", "size"}
IsArrayField(o, f) == f \in ArrayFields \/ (f = "scale" /\ o \in {"truck", "logo"})

\* config.<o>.<f> throws a TypeError when the document has no section <o>
MissingKey(body) == \E o \in Objects : ~HasKey(body, o)

\* [...config.<o>.<f>] throws a TypeError when the member is undefined
SpreadThrows(body) ==
    \E o \in Objects : \E f \in Range(Shape(o)) :
        IsArrayField(o, f) /\ HasKey(body, o) /\ f \notin DOMAIN Documents[body][o]

\* the config object exportConfig serialises, JSON.stringify(config, null, 2)
ExportOrder == <<"telematicsDisplay", "fuelSensor", "truck", "logo">>
ExportJSON(ts) == [i \in 1..Len(ExportOrder) |-> <<ExportOrder[i], Stringify(ts[ExportOrder[i]])>>]

\* the mutant resets an object that already holds the document's section to
\* the bundled defaults
ResetToggles(prev, object, defaultConfig) ==
    [prev EXCEPT ![object] = IF prev[object] = defaultConfig[object]
                             THEN FromConfig(BundledConfig)[object]
                             ELSE defaultConfig[object]]

\* the mutant of the reset updater replaces every object by the document's
ResetUpdaterAll(prev, object, defaultConfig) == defaultConfig

\* the setTransforms updater of resetToDefault
ResetUpdater(prev, object, defaultConfig) ==
    [prev EXCEPT ![object] = defaultConfig[object]]

NoOps == <<>>
NoFields == [f \in {} |-> 0]
NoEffects == <<>>
NoText == <<>>
NoTimers == <<>>
NoInput == [field |-> "none", index |-> 0, value |-> 0]

Result(ok, c, ts, effs) == [ok |-> ok, cause |-> c, transforms |-> ts, effects |-> effs]
CauseOf(body) == IF body = FetchFailed THEN "fetch" ELSE "key"

\* the mutant's catch puts the bundled defaults back and alerts
LoadFailureResets(prev, body) ==
    IF body = FetchFailed \/ MissingKey(body)
    THEN Result(FALSE, CauseOf(body), FromConfig(BundledConfig),
                <<Effect("alert", "Load failed", NoText)>>)
    ELSE Result(TRUE, "none", FromConfig(Documents[body]), NoEffects)

\* loadFromJSON after the fetch answered body: the try block, or the catch
\* that only logs
loadFromJSON(prev, body) ==
    IF body = FetchFailed \/ MissingKey(body)
    THEN Result(FALSE, CauseOf(body), prev, NoEffects)
    ELSE Result(TRUE, "none", FromConfig(Documents[body]), NoEffects)

\* the mutant's catch falls back to the bundled defaults
ImportFallsBack(prev, body) ==
    IF body = FetchFailed \/ MissingKey(body)
    THEN Result(FALSE, CauseOf(body), FromConfig(BundledConfig), NoEffects)
    ELSE Result(TRUE, "none", FromConfig(Documents[body]), NoEffects)

\* the mutant's import keeps a store that no longer holds the initial values
ImportFirstWins(prev, body) ==
    IF body = FetchFailed \/ MissingKey(body)
    THEN Result(FALSE, CauseOf(body), prev, NoEffects)
    ELSE Result(TRUE, "none",
                IF prev = FromConfig(BundledConfig) THEN FromConfig(Documents[body]) ELSE prev,
                NoEffects)

\* the mutant's import sets the sections the document has before it fails
\* on the one that is missing
ImportPartial(prev, body) ==
    IF body = FetchFailed THEN Result(FALSE, "fetch", prev, NoEffects)
    ELSE IF MissingKey(body)
    THEN Result(FALSE, "key",
                [o \in Objects |->
                    IF HasKey(body, o)
                    THEN [f \in Range(Shape(o)) \cap DOMAIN Documents[body][o] |->
                             Documents[body][o][f]]
                    ELSE prev[o]],
                NoEffects)
    ELSE Result(TRUE, "none", FromConfig(Documents[body]), NoEffects)

\* importConfig after the fetch answered body: the try block (return true),
\* or the catch that logs and returns false
importConfig(prev, body) ==
    IF body = FetchFailed \/ MissingKey(body)
    THEN Result(FALSE, CauseOf(body), prev, NoEffects)
    ELSE Result(TRUE, "none", FromConfig(Documents[body]), NoEffects)

\* the mutant resets the object whose tab is active when the fetch resolves
ResetActiveTab(prev, object, body, t) ==
    IF body = FetchFailed \/ MissingKey(body) \/ SpreadThrows(body)
    THEN Result(FALSE, CauseOf(body), prev,
                <<Effect("alert", "Reset failed", NoText)>>)
    ELSE LET defaultConfig == FromConfig(Documents[body])
         IN  Result(TRUE, "none", ResetUpdater(prev, activeObject, defaultConfig),
                    syncToStorage(StorageKey(activeObject), defaultConfig[activeObject], t))

\* resetToDefault(object) after the fetch answered body, at Date.now() = t:
\* the try block (setTransforms, syncToStorage), or the catch that alerts
resetToDefault(prev, object, body, t) ==
    IF body = FetchFailed \/ MissingKey(body) \/ SpreadThrows(body)
    THEN Result(FALSE, CauseOf(body), prev,
                <<Effect("alert", "Reset failed", NoText)>>)
    ELSE LET defaultConfig == FromConfig(Documents[body])
         IN  Result(TRUE, "none", ResetUpdater(prev, object, defaultConfig),
                    syncToStorage(StorageKey(object), defaultConfig[object], t))

NoResets == <<>>

\* history after an update of o naming the fields of u
Named(h, o, u) ==
    [h EXCEPT ![o].named =
                [f \in DOMAIN h[o].named \cup DOMAIN u |->
                    IF f \in DOMAIN u THEN u[f] ELSE h[o].named[f]],
              ![o].resets = NoResets]

\* history after the objects in os were replaced wholesale, given the new store
Replaced(h, os, ts) ==
    [o \in Objects |->
        IF o \in os THEN [base |-> ts[o], named |-> NoFields, resets |-> NoResets]
        ELSE h[o]]

\* history after a successful reset of o that read document b: the resets of
\* o that followed each other with no other write to o (the last two of them)
WasReset(h, o, b, ts) ==
    LET all == Append(h[o].resets, [body |-> b, result |-> ts[o]])
    IN  [Replaced(h, {o}, ts) EXCEPT
            ![o].resets = IF Len(all) > 2 THEN Tail(all) ELSE all]

----------------------------------------------------------------------------
(* State after the hook is mounted: the bundled defaults, the initial load  *)
(* suspended at its fetch, an empty localStorage                            *)

InitialTransforms == FromConfig(BundledConfig)

InitCommon ==
    /\ transforms = InitialTransforms
    /\ connectionStatus = "disconnected"
    /\ storage = [k \in StorageKeys |-> <<>>]
    /\ doc \in TypedDocIds
    /\ clipboard = NoText
    /\ config = InitialTransforms
    /\ now = 0
    /\ last = Step("mount", "", TRUE, "none")
    /\ effects = NoEffects
    /\ calls = 0
    /\ hist = [o \in Objects |->
                 [base |-> InitialTransforms[o], named |-> NoFields, resets |-> NoResets]]
    /\ polledAt = 0
    /\ httpCache = NoRead
    /\ activeObject = "telematicsDisplay"
    /\ rendered = InitialTransforms
    /\ exported = FALSE
    /\ imported = FALSE
    /\ timers = NoTimers
    /\ input = NoInput

\* the runs of a function that React calls once, and under StrictMode in a
\* development build twice: a mount effect, a state updater
Invocations(strictMode, run) == IF strictMode THEN run \o run ELSE run

\* the studio is mounted under React.StrictMode, which is in effect in a
\* development build and not in a production build; the mount effect
\* starts loadFromJSON
InitStudio ==
    /\ page = "studio"
    /\ strict \in BOOLEAN
    /\ inflight = Invocations(strict, <<Op("load", "", "sent", FetchFailed, NoText)>>)

\* the controllers page mounts the four controllers with their initialConfig
Init ==
    /\ InitCommon
    /\ \/ InitStudio
       \/ page = "controllers" /\ strict = FALSE /\ inflight = NoOps

----------------------------------------------------------------------------
(* Actions of the studio *)

\* localStorage.setItem(key, text) throwing (the quota is exceeded)
SetItemThrows(key, text) == <<Effect("throw", key, text)>>

\* updateTransform(object, updates), called by ControlPanel's onChange.  When
\* setItem throws inside the updater the render fails, and with no error
\* boundary the root is unmounted: the update is not applied, and nothing
\* is left to continue
updateTransform(o, u) ==
    LET newTransforms == Updater(transforms, o, u)
        effs == Invocations(strict, syncToStorage(StorageKey(o), newTransforms[o], now))
    IN  /\ page = "studio"
        /\ calls < MaxCalls
        /\ calls' = calls + 1
        /\ \/ /\ transforms' = newTransforms
              /\ storage' = Apply(storage, effs)
              /\ effects' = effs
              /\ last' = Step("update", o, TRUE, "none")
              /\ hist' = Named(hist, o, u)
              /\ UNCHANGED <<inflight, page>>
           \/ /\ effects' = SetItemThrows(StorageKey(o), Stringify(newTransforms[o]))
              /\ last' = Step("update", o, FALSE, "storage")
              /\ page' = "unmounted"
              /\ inflight' = NoOps
              /\ UNCHANGED <<transforms, storage, hist>>
        /\ UNCHANGED <<connectionStatus, doc, clipboard, config, now, polledAt, strict, httpCache>>

\* updateTransform called with the update u of object o
UpdateTransform(o, u) == updateTransform(o, u) /\ UNCHANGED panelVars

\* a handler that starts with a fetch of the document suspends at the await
Request(kind, o) ==
    /\ Len(inflight) < MaxInflight
    /\ calls < MaxCalls
    /\ calls' = calls + 1
    /\ inflight' = Append(inflight, Op(kind, o, "sent", FetchFailed, NoText))
    /\ last' = Step("request", o, TRUE, "none")
    /\ effects' = NoEffects
    /\ UNCHANGED <<transforms, connectionStatus, storage, doc, clipboard, config, now, hist, page, polledAt, strict, panelVars, httpCache>>

\* ControlPanel.handleImport -> importConfig()
ImportStart == page = "studio" /\ Request("import", "")

\* the Reset button -> resetToDefault(activeObject)
ResetStart(o) == page = "studio" /\ Request("reset", o)

\* the hook fetches '/src/config/objectTransforms.json?t=' + Date.now(), a
\* URL of its own for every read; readConfig fetches CONFIG_PATH as it is
CacheBusted(kind) == kind \in {"load", "import", "reset"}

\* what a fetch can be answered with: the document as it is now, a failure
\* (network error, or a body that is not JSON), and for a URL that was
\* fetched before, the response the browser has cached for it
Answers(kind, d, cached) ==
    {d, FetchFailed} \cup (IF CacheBusted(kind) \/ cached = NoRead THEN {} ELSE {cached})

\* a pending fetch is answered; a response to the plain URL is cached
Serve(i) ==
    /\ i \in 1..Len(inflight)
    /\ inflight[i].stage = "sent"
    /\ inflight[i].kind \in {"load", "import", "reset", "ctlImport", "ctlExport"}
    /\ \E b \in Answers(inflight[i].kind, doc, httpCache) :
          /\ inflight' = [inflight EXCEPT ![i].stage = "served", ![i].body = b]
          /\ httpCache' = IF CacheBusted(inflight[i].kind) \/ b = FetchFailed
                          THEN httpCache ELSE b
    /\ last' = Step("serve", inflight[i].obj, TRUE, "none")
    /\ effects' = NoEffects
    /\ UNCHANGED <<transforms, connectionStatus, storage, doc, clipboard, config, now, calls, hist, page, polledAt, strict, panelVars>>

\* the user pastes other content into objectTransforms.json
EditDocument(d) ==
    /\ d \in TypedDocIds \ {doc}
    /\ calls < MaxCalls
    /\ calls' = calls + 1
    /\ doc' = d
    /\ last' = Step("edit", "", TRUE, "none")
    /\ effects' = NoEffects
    /\ UNCHANGED <<transforms, connectionStatus, storage, inflight, clipboard, config, now, hist, page, polledAt, strict, panelVars, httpCache>>

\* loadFromJSON continues after its awaits
LoadResolve(i) ==
    /\ i \in 1..Len(inflight)
    /\ inflight[i].kind = "load" /\ inflight[i].stage = "served"
    /\ LET r == loadFromJSON(transforms, inflight[i].body)
       IN  /\ transforms' = r.transforms
           /\ inflight' = Completed(inflight, i, r.ok)
           /\ hist' = IF r.ok THEN Replaced(hist, Objects, r.transforms) ELSE hist
           /\ last' = StepOf(inflight[i], r.ok, r.cause)
           /\ effects' = r.effects
    /\ UNCHANGED <<connectionStatus, storage, doc, clipboard, config, now, calls, page, polledAt, strict, panelVars, httpCache>>

\* importConfig continues after its awaits and returns its boolean
ImportSettled(i) ==
    /\ i \in 1..Len(inflight)
    /\ inflight[i].kind = "import" /\ inflight[i].stage = "served"
    /\ LET r == importConfig(transforms, inflight[i].body)
       IN  /\ transforms' = r.transforms
           /\ inflight' = Completed(inflight, i, r.ok)
           /\ hist' = IF r.ok THEN Replaced(hist, Objects, r.transforms) ELSE hist
           /\ last' = StepOf(inflight[i], r.ok, r.cause)
    /\ effects' = NoEffects
    /\ UNCHANGED <<connectionStatus, storage, doc, clipboard, config, now, calls, page, polledAt, strict, httpCache>>

\* importConfig as the hook's caller sees it
ImportResolve(i) == ImportSettled(i) /\ UNCHANGED panelVars

\* resetToDefault continues after its awaits
ResetResolve(i) ==
    /\ i \in 1..Len(inflight)
    /\ inflight[i].kind = "reset" /\ inflight[i].stage = "served"
    /\ LET o == inflight[i].obj
           r == resetToDefault(transforms, o, inflight[i].body, now)
       IN  /\ transforms' = r.transforms
           /\ inflight' = Completed(inflight, i, r.ok)
           /\ hist' = IF r.ok THEN WasReset(hist, o, inflight[i].body, r.transforms) ELSE hist
           /\ \/ /\ storage' = Apply(storage, r.effects)
                 /\ effects' = r.effects
                 /\ last' = StepOf(inflight[i], r.ok, r.cause)
              \/ \* setItem throws in syncToStorage, after setTransforms: the
                 \* catch alerts
                 /\ r.ok
                 /\ UNCHANGED storage
                 /\ effects' = SetItemThrows(StorageKey(o), Stringify(r.transforms[o]))
                                   \o <<Effect("alert", "Reset failed", NoText)>>
                 /\ last' = StepOf(inflight[i], FALSE, "storage")
    /\ UNCHANGED <<connectionStatus, doc, clipboard, config, now, calls, page, polledAt, strict, panelVars, httpCache>>

\* ControlPanel.handleExport -> exportConfig(): stringify the transforms of
\* the current render, suspend at clipboard.writeText
ExportStart ==
    /\ page = "studio"
    /\ Len(inflight) < MaxInflight
    /\ calls < MaxCalls
    /\ calls' = calls + 1
    /\ inflight' = Append(inflight, Op("export", "", "writing", FetchFailed, ExportJSON(transforms)))
    /\ last' = Step("request", "", TRUE, "none")
    /\ effects' = NoEffects
    /\ UNCHANGED <<transforms, connectionStatus, storage, doc, clipboard, config, now, hist, page, polledAt, strict, panelVars, httpCache>>

\* the clipboard write settles; exportConfig returns its boolean, on which
\* its caller shows COPIED (true) or nothing (false)
ExportSettled(i, written) ==
    /\ i \in 1..Len(inflight)
    /\ inflight[i].kind = "export" /\ inflight[i].stage = "writing"
    /\ inflight' = RemoveAt(inflight, i)
    /\ IF written
       THEN /\ clipboard' = inflight[i].payload
            /\ last' = Step("export", "", TRUE, "none")
            /\ effects' = <<Effect("indicator", "COPIED", NoText)>>
       ELSE /\ UNCHANGED clipboard
            /\ last' = Step("export", "", FALSE, "clipboard")
            /\ effects' = <<Effect("return", "false", NoText)>>
    /\ UNCHANGED <<transforms, connectionStatus, storage, doc, config, now, calls, hist, page, polledAt, strict, httpCache>>

\* exportConfig as the hook's caller sees it
ExportResolve(i, written) == ExportSettled(i, written) /\ UNCHANGED panelVars

----------------------------------------------------------------------------
(* The per-object controllers and configSync *)

\* the constants resetConfig (FuelSensorController) and resetToDefault
\* (LogoController) set; 0.017453292519943295 rad is 1745329
HardcodedDefaults ==
    [fuelSensor |->
        [position |-> <<3100, 600, -5000>>, rotation |-> <<0, 0, 0>>,
         scale |-> 1000, probeLength |-> 600],
     logo |->
        [position |-> <<0, 2250, 5350>>, rotation |-> <<0, 0, 1745329>>,
         scale |-> <<1000, 960>>, offsetZ |-> -500, visible |-> TRUE]]

\* JSON.stringify(existingConfig, null, 2) after existingConfig[objectKey] =
\* config: the document's sections in the document's key order, the
\* assigned one replaced (or appended when the document had no such key)
DocOrder(cfg, o) ==
    LET present == SelectSeq(ExportOrder, LAMBDA k : k \in DOMAIN cfg)
    IN  IF o \in DOMAIN cfg THEN present ELSE Append(present, o)

UpdatedJSON(cfg, o, c) ==
    [i \in 1..Len(DocOrder(cfg, o)) |->
        LET k == DocOrder(cfg, o)[i]
        IN  <<k, Stringify(IF k = o THEN c ELSE cfg[k])>>]

\* the values the controllers' inputs send: those of the studio, and for the
\* logo the NaN that parseFloat gives for an emptied number field
CtlUpdates(o) ==
    Updates(o) \cup (IF o = "logo" THEN {[position |-> <<NaN, 2250, 5350>>]} ELSE {})

\* the updatePosition / updateScale / ... handlers: setConfig(prev => merged)
CtlUpdate(o, u) ==
    /\ page = "controllers"
    /\ calls < MaxCalls
    /\ calls' = calls + 1
    /\ config' = [config EXCEPT ![o] = Merge(config[o], u)]
    /\ last' = Step("ctlUpdate", o, TRUE, "none")
    /\ effects' = NoEffects
    /\ UNCHANGED <<transforms, connectionStatus, storage, doc, inflight, clipboard, now, hist, page, polledAt, strict, panelVars, httpCache>>

\* FuelSensorController.resetConfig, LogoController.resetToDefault
CtlReset(o) ==
    /\ page = "controllers"
    /\ o \in DOMAIN HardcodedDefaults
    /\ calls < MaxCalls
    /\ calls' = calls + 1
    /\ config' = [config EXCEPT ![o] = HardcodedDefaults[o]]
    /\ last' = StepRead("ctlReset", o, TRUE, "none", doc)
    /\ effects' = NoEffects
    /\ UNCHANGED <<transforms, connectionStatus, storage, doc, inflight, clipboard, now, hist, page, polledAt, strict, panelVars, httpCache>>

\* the mutant returns config[objectKey] without the check: undefined when
\* the document has no such key
ImportUnchecked(body, objectKey) ==
    IF body = FetchFailed
    THEN [ok |-> FALSE, cause |-> "fetch", value |-> NoFields]
    ELSE [ok |-> TRUE, cause |-> "none",
          value |-> IF HasKey(body, objectKey) THEN Documents[body][objectKey] ELSE NoFields]

\* importFromConfig(objectKey) after readConfig answered body: the section,
\* or a throw (readConfig threw, or !config[objectKey])
importFromConfig(body, objectKey) ==
    IF body = FetchFailed \/ ~HasKey(body, objectKey)
    THEN [ok |-> FALSE, cause |-> CauseOf(body), value |-> NoFields]
    ELSE [ok |-> TRUE, cause |-> "none", value |-> Documents[body][objectKey]]

\* handleImport -> importFromConfig(key) -> readConfig(): suspended at the fetch
CtlImportStart(o) == page = "controllers" /\ Request("ctlImport", o)

\* importFromConfig continues; handleImport sets the config or alerts
CtlImportResolve(i) ==
    /\ i \in 1..Len(inflight)
    /\ inflight[i].kind = "ctlImport" /\ inflight[i].stage = "served"
    /\ inflight' = RemoveAt(inflight, i)
    /\ LET b == inflight[i].body
           o == inflight[i].obj
           r == importFromConfig(b, o)
       IN  /\ last' = StepRead("ctlImport", o, r.ok, r.cause, b)
           /\ IF r.ok
              THEN \* setConfig(importedConfig)
                   /\ config' = [config EXCEPT ![o] = r.value]
                   /\ effects' = NoEffects
              ELSE \* catch: console.error, alert
                   /\ UNCHANGED config
                   /\ effects' = <<Effect("alert", "Import failed", NoText)>>
    /\ UNCHANGED <<transforms, connectionStatus, storage, doc, clipboard, now, calls, hist, page, polledAt, strict, panelVars, httpCache>>

\* handleExport -> exportToConfig(key, config) -> readConfig(): suspended at
\* the fetch, holding the config of the render that handled the click
CtlExportStart(o) ==
    /\ page = "controllers"
    /\ Len(inflight) < MaxInflight
    /\ calls < MaxCalls
    /\ calls' = calls + 1
    /\ inflight' = Append(inflight, Op("ctlExport", o, "sent", FetchFailed, config[o]))
    /\ last' = Step("request", o, TRUE, "none")
    /\ effects' = NoEffects
    /\ UNCHANGED <<transforms, connectionStatus, storage, doc, clipboard, config, now, hist, page, polledAt, strict, panelVars, httpCache>>

\* exportToConfig continues after readConfig: it throws, or stringifies the
\* updated document and suspends at clipboard.writeText
CtlExportFetched(i) ==
    /\ i \in 1..Len(inflight)
    /\ inflight[i].kind = "ctlExport" /\ inflight[i].stage = "served"
    /\ LET b == inflight[i].body
           o == inflight[i].obj
       IN  IF b = FetchFailed
           THEN /\ inflight' = RemoveAt(inflight, i)
                /\ last' = StepRead("ctlExport", o, FALSE, "fetch", b)
                /\ effects' = <<Effect("alert", "Export failed", NoText)>>
           ELSE /\ inflight' = [inflight EXCEPT ![i].stage = "writing",
                                    ![i].payload = UpdatedJSON(Documents[b], o, inflight[i].payload)]
                /\ last' = StepRead("fetched", o, TRUE, "none", b)
                /\ effects' = NoEffects
    /\ UNCHANGED <<transforms, connectionStatus, storage, doc, clipboard, config, now, calls, hist, page, polledAt, strict, panelVars, httpCache>>

\* the clipboard write of exportToConfig settles; handleExport shows
\* EXPORTED or alerts
CtlExportWritten(i, written) ==
    /\ i \in 1..Len(inflight)
    /\ inflight[i].kind = "ctlExport" /\ inflight[i].stage = "writing"
    /\ inflight' = RemoveAt(inflight, i)
    /\ IF written
       THEN /\ clipboard' = inflight[i].payload
            /\ last' = StepRead("ctlExport", inflight[i].obj, TRUE, "none", inflight[i].body)
            /\ effects' = <<Effect("indicator", "EXPORTED", NoText)>>
       ELSE /\ UNCHANGED clipboard
            /\ last' = StepRead("ctlExport", inflight[i].obj, FALSE, "clipboard", inflight[i].body)
            /\ effects' = <<Effect("alert", "Export failed", NoText)>>
    /\ UNCHANGED <<transforms, connectionStatus, storage, doc, config, now, calls, hist, page, polledAt, strict, panelVars, httpCache>>

\* copyJSON: stringify the config, start the clipboard write without
\* awaiting it, show COPIED
CtlCopy(o) ==
    /\ page = "controllers"
    /\ Len(inflight) < MaxInflight
    /\ calls < MaxCalls
    /\ calls' = calls + 1
    /\ inflight' = Append(inflight, Op("ctlCopy", o, "writing", FetchFailed, Stringify(config[o])))
    /\ last' = Step("ctlCopy", o, TRUE, "none")
    /\ effects' = <<Effect("indicator", "COPIED", NoText)>>
    /\ UNCHANGED <<transforms, connectionStatus, storage, doc, clipboard, config, now, hist, page, polledAt, strict, panelVars, httpCache>>

\* the clipboard write copyJSON started settles; nothing awaits the promise
CtlCopySettled(i, written) ==
    /\ i \in 1..Len(inflight)
    /\ inflight[i].kind = "ctlCopy" /\ inflight[i].stage = "writing"
    /\ inflight' = RemoveAt(inflight, i)
    /\ IF written
       THEN /\ clipboard' = inflight[i].payload
            /\ last' = Step("copySettled", inflight[i].obj, TRUE, "none")
       ELSE /\ UNCHANGED clipboard
            /\ last' = Step("copySettled", inflight[i].obj, FALSE, "clipboard")
    /\ effects' = NoEffects
    /\ UNCHANGED <<transforms, connectionStatus, storage, doc, config, now, calls, hist, page, polledAt, strict, panelVars, httpCache>>

Next ==
    \/ \E o \in Objects : \E u \in Updates(o) : UpdateTransform(o, u)
    \/ ImportStart
    \/ \E o \in Objects : ResetStart(o)
    \/ ExportStart
    \/ \E i \in 1..MaxInflight : Serve(i)
    \/ \E i \in 1..MaxInflight : LoadResolve(i)
    \/ \E i \in 1..MaxInflight : ImportResolve(i)
    \/ \E i \in 1..MaxInflight : ResetResolve(i)
    \/ \E i \in 1..MaxInflight : \E w \in BOOLEAN : ExportResolve(i, w)
    \/ \E d \in TypedDocIds : EditDocument(d)
    \/ \E o \in Objects : \E u \in CtlUpdates(o) : CtlUpdate(o, u)
    \/ \E o \in Objects : CtlReset(o)
    \/ \E o \in Objects : CtlImportStart(o)
    \/ \E o \in Objects : CtlExportStart(o)
    \/ \E i \in 1..MaxInflight : CtlImportResolve(i)
    \/ \E i \in 1..MaxInflight : CtlExportFetched(i)
    \/ \E i \in 1..MaxInflight : \E w \in BOOLEAN : CtlExportWritten(i, w)
    \/ \E o \in Objects : CtlCopy(o)
    \/ \E i \in 1..MaxInflight : \E w \in BOOLEAN : CtlCopySettled(i, w)

Spec == Init /\ [][Next]_vars

----------------------------------------------------------------------------
(* The controllers with the exported text pasted into the document *)

\* the user replaces the content of objectTransforms.json by the clipboard's
\* text, as the EXPORT button's instructions say
PasteClipboard(d) ==
    /\ d \in DocIds
    /\ clipboard # NoText
    /\ Documents[d] = ParseJSON(clipboard)
    /\ doc' = d
    /\ last' = Step("paste", "", TRUE, "none")
    /\ effects' = NoEffects
    /\ UNCHANGED <<transforms, connectionStatus, storage, inflight, clipboard, config,
                   now, calls, hist, page, polledAt, strict, panelVars, httpCache>>

InitRoundTrip ==
    /\ InitCommon
    /\ page = "controllers"
    /\ strict = FALSE
    /\ inflight = NoOps

NextRoundTrip ==
    \/ \E o \in Objects : \E u \in CtlUpdates(o) : CtlUpdate(o, u)
    \/ \E o \in Objects : CtlExportStart(o)
    \/ \E o \in Objects : CtlImportStart(o)
    \/ \E i \in 1..MaxInflight : Serve(i)
    \/ \E i \in 1..MaxInflight : CtlExportFetched(i)
    \/ \E i \in 1..MaxInflight : \E w \in BOOLEAN : CtlExportWritten(i, w)
    \/ \E i \in 1..MaxInflight : CtlImportResolve(i)
    \/ \E d \in DocIds : PasteClipboard(d)

SpecRoundTrip == InitRoundTrip /\ [][NextRoundTrip]_vars

----------------------------------------------------------------------------
(* Time, the main application's heartbeat and the connection poll *)

CONNECTION_THRESHOLD == 5000

\* the mutant reports connected up to and including the threshold
StatusInclusive(timeDiff) ==
    IF timeDiff <= CONNECTION_THRESHOLD THEN "connected" ELSE "disconnected"

\* timeDiff < 5000 ? 'connected' : 'disconnected'
StatusFor(timeDiff) ==
    IF timeDiff < CONNECTION_THRESHOLD THEN "connected" ELSE "disconnected"

\* setInterval(checkConnection, 2000)
POLL_INTERVAL == 2000

\* the mutant's timer fires every other period
PollDueLate(t, at) == t >= at + 2 * POLL_INTERVAL

\* the interval timer has a run of checkConnection pending at time t, the
\* last run having been at time at
PollDue(t, at) == t >= at + POLL_INTERVAL

\* a setTimeout callback is due at time t
TimerDue(t, timer) == t >= timer.at

\* time passes, up to the moment a timer fires next; the clock of the model
\* stops at MaxNow once no timeout is pending
Tick ==
    /\ now + TickMs <= MaxNow \/ timers # NoTimers
    /\ ~PollDue(now, polledAt)
    /\ \A k \in 1..Len(timers) : ~TimerDue(now, timers[k])
    /\ now' = now + TickMs
    /\ last' = Step("tick", "", TRUE, "none")
    /\ effects' = NoEffects
    /\ UNCHANGED <<transforms, connectionStatus, storage, doc, inflight, clipboard,
                   config, calls, hist, page, polledAt, strict, panelVars, httpCache>>

\* the main application stamps 'last-main-page-update' with its Date.now()
MainPageUpdate ==
    /\ calls < MaxCalls
    /\ calls' = calls + 1
    /\ storage' = [storage EXCEPT ![MainPageTimestampKey] = NumToString(now)]
    /\ last' = Step("mainPage", "", TRUE, "none")
    /\ effects' = NoEffects
    /\ UNCHANGED <<transforms, connectionStatus, doc, inflight, clipboard, config,
                   now, hist, page, polledAt, strict, panelVars, httpCache>>

\* checkConnection, run by setInterval (its run at mount, on an empty
\* localStorage, changes nothing)
CheckConnection ==
    /\ page = "studio"
    /\ PollDue(now, polledAt)
    /\ polledAt' = now
    /\ LET lastUpdate == storage[MainPageTimestampKey]
       IN  IF lastUpdate # <<>>
           THEN connectionStatus' = StatusFor(now - ParseInt(lastUpdate))
           ELSE UNCHANGED connectionStatus
    /\ last' = Step("poll", "", TRUE, "none")
    /\ effects' = NoEffects
    /\ UNCHANGED <<transforms, storage, doc, inflight, clipboard, config, now,
                   calls, hist, page, strict, panelVars, httpCache>>

\* the studio with the clock running: updates mirror to storage while the
\* main application stamps its heartbeat and the poll runs
InitTimed ==
    /\ InitCommon
    /\ doc = 1
    /\ InitStudio

NextTimed ==
    \/ Tick
    \/ MainPageUpdate
    \/ CheckConnection
    \/ \E o \in Objects : \E u \in Updates(o) : UpdateTransform(o, u)
    \/ \E i \in 1..MaxInflight : Serve(i)
    \/ \E i \in 1..MaxInflight : LoadResolve(i)

SpecTimed == InitTimed /\ [][NextTimed]_vars

\* an update of the object whose tab is selected
ActiveUpdate == \E u \in Updates(activeObject) : UpdateTransform(activeObject, u)

\* the studio on the tab it opens with, the clock running: both mirrors, the
\* one of an update and the one of a reset, next to the main application's
\* heartbeat
NextMirror ==
    \/ Tick
    \/ MainPageUpdate
    \/ CheckConnection
    \/ ActiveUpdate
    \/ ResetStart(activeObject)
    \/ \E i \in 1..MaxInflight : Serve(i)
    \/ \E i \in 1..MaxInflight : LoadResolve(i)
    \/ \E i \in 1..MaxInflight : ResetResolve(i)

SpecMirror == InitTimed /\ [][NextMirror]_vars

----------------------------------------------------------------------------
(* The control panel of the studio: ControllerStudio, ControlPanel and     *)
(* ObjectControls on top of the hook                                        *)

Input(f, i, v) == [field |-> f, index |-> i, value |-> v]

\* the components of an array the sliders address (index 0..2 in the code)
Indices == 1..3

\* the texts the position inputs can hold: 2, and an emptied field
PositionTexts == {<<2000>>, EmptyText}

\* the texts the rotation inputs can hold: -180, 12.345678 and 180 degrees,
\* and an emptied field
RotationTexts == {<<-180000000>>, <<12345678>>, <<180000000>>, EmptyText}

\* SliderGroup: the number field passes parseFloat(text) || 0 to onChange,
\* the range slider (which always holds a number) parseFloat(text)
SliderGroup(kind, text) ==
    IF kind = "number" THEN OrElse(parseFloat(text), 0) ELSE parseFloat(text)

InputKinds == {"number", "range"}
CanHold(kind, text) == kind = "number" \/ text # EmptyText

\* ObjectControls.updatePosition(index, value), with the transform prop of
\* the render on screen
updatePosition(transform, index, value) ==
    [position |-> [transform.position EXCEPT ![index] = value]]

\* ObjectControls.updateRotation(index, value): value is in degrees
updateRotation(transform, index, value) ==
    [rotation |-> [transform.rotation EXCEPT ![index] = ToRadians(value)]]

\* the value prop of a rotation SliderGroup, and the text of its number field
RotationValue(transform, index) == ToDegrees(transform.rotation[index])
RotationText(transform, index) == toFixed(RotationValue(transform, index), 2)

\* the render of ObjectControls reads every member of the active object's
\* shape; a member that is undefined makes it throw
RenderThrows(ts, o) == DOMAIN ts[o] # Range(Shape(o))

\* onChange={(updates) => onTransformChange(activeObject, updates)}: a
\* discrete event, whose update React renders synchronously on top of the
\* state on screen (an update of lower priority that is pending stays
\* pending)
ControlChange(u, in) ==
    /\ ~RenderThrows(rendered, activeObject)
    /\ updateTransform(activeObject, u)
    /\ rendered' = Updater(rendered, activeObject, u)
    /\ input' = in
    /\ UNCHANGED <<activeObject, exported, imported, timers>>

\* the three Position SliderGroups
ChangePosition(index, kind, text) ==
    /\ CanHold(kind, text)
    /\ ControlChange(updatePosition(rendered[activeObject], index, SliderGroup(kind, text)),
                     Input("position", index, SliderGroup(kind, text)))

\* the three Rotation SliderGroups
ChangeRotation(index, kind, text) ==
    /\ CanHold(kind, text)
    /\ ControlChange(updateRotation(rendered[activeObject], index, SliderGroup(kind, text)),
                     Input("rotation", index, SliderGroup(kind, text)))

\* a tab button: onActiveObjectChange(tab.key)
SetActiveObject(o) ==
    /\ page = "studio"
    /\ o # activeObject
    /\ calls < MaxCalls
    /\ calls' = calls + 1
    /\ activeObject' = o
    /\ last' = Step("tab", o, TRUE, "none")
    /\ effects' = NoEffects
    /\ UNCHANGED <<transforms, connectionStatus, storage, doc, inflight, clipboard, config,
                   now, hist, page, polledAt, strict, httpCache,
                   rendered, exported, imported, timers, input>>

\* the Reset button: onReset(activeObject)
PanelReset == ResetStart(activeObject)

\* React renders the state a completed load, import or reset has set; with
\* no error boundary, a render that throws unmounts the root
Render ==
    /\ page = "studio"
    /\ rendered # transforms
    /\ rendered' = transforms
    /\ IF RenderThrows(transforms, activeObject)
       THEN /\ page' = "unmounted"
            /\ inflight' = NoOps
            /\ last' = Step("render", activeObject, FALSE, "render")
       ELSE /\ UNCHANGED <<page, inflight>>
            /\ last' = Step("render", activeObject, TRUE, "none")
    /\ effects' = NoEffects
    /\ UNCHANGED <<transforms, connectionStatus, storage, doc, clipboard, config,
                   now, calls, hist, polledAt, strict, httpCache,
                   activeObject, exported, imported, timers, input>>

\* LogoController's position inputs: updatePosition(index, parseFloat(text)),
\* the updater replacing one component of the previous position
LogoPositionInput(index, text) ==
    CtlUpdate("logo", [position |-> [config["logo"].position EXCEPT ![index] = parseFloat(text)]])

\* the studio with its control panel: tabs, position sliders and the Reset
\* button, while the initial load and the resets complete and render
InitPanel == InitCommon /\ InitStudio

NextPanel ==
    \/ \E i \in Indices : \E k \in InputKinds : \E t \in PositionTexts : ChangePosition(i, k, t)
    \/ \E o \in Objects : SetActiveObject(o)
    \/ PanelReset
    \/ \E i \in 1..MaxInflight : Serve(i)
    \/ \E i \in 1..MaxInflight : LoadResolve(i)
    \/ \E i \in 1..MaxInflight : ResetResolve(i)
    \/ Render

SpecPanel == InitPanel /\ [][NextPanel]_vars

\* the inputs of the studio's sliders and of LogoController's position
\* fields, with the bundled document
InitInputs == Init /\ doc = 1

NextInputs ==
    \/ \E i \in Indices : \E k \in InputKinds : \E t \in PositionTexts : ChangePosition(i, k, t)
    \/ \E i \in Indices : \E k \in InputKinds : \E t \in RotationTexts : ChangeRotation(i, k, t)
    \/ \E i \in 1..MaxInflight : Serve(i)
    \/ \E i \in 1..MaxInflight : LoadResolve(i)
    \/ Render
    \/ \E i \in Indices : \E t \in PositionTexts : LogoPositionInput(i, t)

SpecInputs == InitInputs /\ [][NextInputs]_vars

----------------------------------------------------------------------------
(* The success labels of the control panel and their timeouts *)

\* setTimeout(() => setExported(false), 2000)
LABEL_TIMEOUT == 2000

\* the mutant cancels the label's pending timeouts before it schedules one
Debounced(ts, label, t) ==
    Append(SelectSeq(ts, LAMBDA x : x.label # label),
           [label |-> label, at |-> t + LABEL_TIMEOUT])

\* setTimeout(callback, 2000) called at time t: one more pending callback
setTimeout(ts, label, t) == Append(ts, [label |-> label, at |-> t + LABEL_TIMEOUT])

\* ControlPanel.handleExport continues after await onExport()
HandleExport(i, written) ==
    /\ ExportSettled(i, written)
    /\ IF written
       THEN /\ exported' = TRUE
            /\ timers' = setTimeout(timers, "exported", now)
       ELSE UNCHANGED <<exported, timers>>
    /\ UNCHANGED <<activeObject, rendered, imported, input>>

\* ControlPanel.handleImport continues after await onImport()
HandleImport(i) ==
    /\ ImportSettled(i)
    /\ IF importConfig(transforms, inflight[i].body).ok
       THEN /\ imported' = TRUE
            /\ timers' = setTimeout(timers, "imported", now)
       ELSE UNCHANGED <<imported, timers>>
    /\ UNCHANGED <<activeObject, rendered, exported, input>>

\* the timeout that is due first runs its callback: setExported(false) or
\* setImported(false)
TimerFires ==
    /\ timers # NoTimers
    /\ TimerDue(now, Head(timers))
    /\ timers' = Tail(timers)
    /\ exported' = IF Head(timers).label = "exported" THEN FALSE ELSE exported
    /\ imported' = IF Head(timers).label = "imported" THEN FALSE ELSE imported
    /\ last' = Step("timeout", Head(timers).label, TRUE, "none")
    /\ effects' = NoEffects
    /\ UNCHANGED <<transforms, connectionStatus, storage, doc, inflight, clipboard, config,
                   now, calls, hist, page, polledAt, strict, httpCache,
                   activeObject, rendered, input>>

\* the studio with the clock running: exports and imports show their labels
InitLabels == InitTimed

NextLabels ==
    \/ Tick
    \/ CheckConnection
    \/ TimerFires
    \/ ExportStart
    \/ ImportStart
    \/ \E i \in 1..MaxInflight : Serve(i)
    \/ \E i \in 1..MaxInflight : LoadResolve(i)
    \/ \E i \in 1..MaxInflight : \E w \in BOOLEAN : HandleExport(i, w)
    \/ \E i \in 1..MaxInflight : HandleImport(i)

\* the browser runs a timer's callback once it is due, and time passes
SpecLabels ==
    /\ InitLabels
    /\ [][NextLabels]_vars
    /\ WF_vars(Tick)
    /\ WF_vars(CheckConnection)
    /\ WF_vars(TimerFires)

----------------------------------------------------------------------------
(* The studio and the controllers with documents that lack members *)

\* the user deletes a member from a section of objectTransforms.json
DeleteMember(d) ==
    /\ d \in PartialDocIds \ {doc}
    /\ calls < MaxCalls
    /\ calls' = calls + 1
    /\ doc' = d
    /\ last' = Step("edit", "", TRUE, "none")
    /\ effects' = NoEffects
    /\ UNCHANGED <<transforms, connectionStatus, storage, inflight, clipboard, config, now,
                   hist, page, polledAt, strict, panelVars, httpCache>>

NextShapes ==
    \/ \E d \in DocIds : DeleteMember(d)
    \/ \E o \in Objects : \E u \in Updates(o) : UpdateTransform(o, u)
    \/ ImportStart
    \/ \E o \in Objects : ResetStart(o)
    \/ \E i \in 1..MaxInflight : Serve(i)
    \/ \E i \in 1..MaxInflight : LoadResolve(i)
    \/ \E i \in 1..MaxInflight : ImportResolve(i)
    \/ \E i \in 1..MaxInflight : ResetResolve(i)
    \/ \E o \in Objects : CtlImportStart(o)
    \/ \E i \in 1..MaxInflight : CtlImportResolve(i)

SpecShapes == Init /\ [][NextShapes]_vars

----------------------------------------------------------------------------
(* Properties of the studio *)

Alerted == \E i \in 1..Len(effects) : effects[i].eff = "alert"

Dispatched(k, v) ==
    \E i \in 1..Len(effects) :
        effects[i].eff = "dispatch" /\ effects[i].key = k /\ effects[i].value = v

\* C1: after any sequence of updateTransform calls on an object, every field
\* of its transform holds the value of the most recent update that named it,
\* and the value it had before the sequence when no update named it.
C1_UpdatesMerge ==
    \A o \in Objects :
        /\ DOMAIN transforms[o] = DOMAIN hist[o].base \cup DOMAIN hist[o].named
        /\ \A f \in DOMAIN transforms[o] :
              transforms[o][f] = IF f \in DOMAIN hist[o].named
                                 THEN hist[o].named[f]
                                 ELSE hist[o].base[f]

\* update(fuelSensor, {scale: 2}) and update(fuelSensor, {probeLength: 0.8})
\* have both been applied
C1_Witness ==
    /\ last.kind = "update" /\ last.obj = "fuelSensor"
    /\ DOMAIN hist["fuelSensor"].named = {"scale", "probeLength"}
    /\ transforms["fuelSensor"].scale = 2000
    /\ transforms["fuelSensor"].probeLength = 800

\* the objects a successful step replaced or updated
WrittenBy(l) == IF l.kind = "import" THEN Objects ELSE {l.obj}

\* C2: every successful update, import and reset is followed by a mirror of
\* each object it wrote to that object's storage slot and by a dispatched
\* change notification for it.
C2_SuccessIsMirrored ==
    (last.ok /\ last.kind \in {"update", "import", "reset"}) =>
        \A o \in WrittenBy(last) :
            /\ storage[StorageKey(o)] = Stringify(transforms[o])
            /\ Dispatched(StorageKey(o), Stringify(transforms[o]))

\* C5: every failed import, export or reset raises an alert, and a failed
\* initial load raises none.
C5_FailuresAlert ==
    /\ (~last.ok /\ last.kind \in {"import", "export", "reset", "ctlImport", "ctlExport"})
          => Alerted
    /\ (~last.ok /\ last.kind = "load") => ~Alerted

\* C7: an update or a reset of one object leaves the transforms of the other
\* three objects as they were, whatever else is in flight.
C7_OthersUntouched ==
    [][last'.kind \in {"update", "reset"} =>
          \A p \in Objects \ {last'.obj} : transforms'[p] = transforms[p]]_vars

\* an update to one object was applied while a reset of another awaits its fetch
C7_Witness ==
    /\ last.kind = "update"
    /\ \E i \in 1..Len(inflight) :
          inflight[i].kind = "reset" /\ inflight[i].obj # last.obj
    /\ DOMAIN hist[last.obj].named # {}

\* a reset of one object completed after an update to another was applied
C7_WitnessReset ==
    /\ last.kind = "reset" /\ last.ok
    /\ \E p \in Objects \ {last.obj} : DOMAIN hist[p].named # {}

\* C9: the four objects have four distinct slots, and a mirror for one object
\* writes only that object's slot and the controller timestamp.
C9_MirrorWritesOneSlot ==
    /\ [][\A o, p \in Objects : o # p => StorageKey(o) # StorageKey(p)]_vars
    /\ [][(last'.ok /\ last'.kind \in {"update", "reset"}) =>
            \A k \in StorageKeys \ {StorageKey(last'.obj), ControllerTimestampKey} :
                storage'[k] = storage[k]]_vars

\* a mirror ran for one object while another object's slot was already written
C9_Witness ==
    /\ last.ok /\ last.kind \in {"update", "reset"}
    /\ storage[StorageKey(last.obj)] = Stringify(transforms[last.obj])
    /\ \E p \in Objects \ {last.obj} : storage[StorageKey(p)] # <<>>

\* the in-memory transform of an object on the mounted page
InMemory(o) == IF page = "studio" THEN transforms[o] ELSE config[o]

\* C3: after a successful reset of an object, its in-memory transform is that
\* object's section of the configuration document as the reset found it.
C3_ResetRestoresDocument ==
    (last.ok /\ last.kind \in {"reset", "ctlReset"}) =>
        /\ HasKey(last.body, last.obj)
        /\ InMemory(last.obj) = Documents[last.body][last.obj]

FailedUserAction(l) ==
    /\ ~l.ok
    /\ l.kind \in {"import", "export", "reset", "ctlImport", "ctlExport"}
    /\ l.cause \in {"fetch", "key", "clipboard"}

\* C4: no step of an import, export or reset that fails (fetch or parse
\* failure, missing key, clipboard failure) changes an in-memory transform:
\* neither the step that starts it nor the step in which it fails.
C4_FailureLeavesStore ==
    [][(FailedUserAction(last') \/ last'.kind \in {"request", "fetched"}) =>
          (transforms' = transforms /\ config' = config)]_vars

\* an import, export or reset failed in a store that differs from the defaults
C4_Witness ==
    /\ FailedUserAction(last)
    /\ \E o \in Objects : InMemory(o) # InitialTransforms[o]

\* C6: an import that read a document without the object's key fails with
\* the key-not-found cause and leaves the in-memory transforms as they were.
C6_MissingKeyImportFails ==
    [][(/\ last'.kind \in {"import", "ctlImport"}
        /\ last'.body \in DocIds
        /\ IF last'.kind = "import" THEN MissingKey(last'.body)
                                    ELSE ~HasKey(last'.body, last'.obj))
       => (/\ ~last'.ok
           /\ last'.cause = "key"
           /\ transforms' = transforms
           /\ config' = config)]_vars

\* importObject('logo') on a document without a logo key has failed, with a
\* logo transform in memory that differs from the default
C6_Witness ==
    /\ last.kind = "ctlImport" /\ last.obj = "logo"
    /\ last.body \in DocIds /\ ~HasKey(last.body, "logo")
    /\ ~last.ok
    /\ config["logo"] # InitialTransforms["logo"]

\* C8: a mirror writes the serialised transform to the object's slot and the
\* controller timestamp, and dispatches, after both writes, a storage event
\* with the slot's key and the value just written.
C8_MirrorWritesThenDispatches ==
    (last.ok /\ last.kind \in {"update", "reset"}) =>
        LET k == StorageKey(last.obj)
            v == Stringify(transforms[last.obj])
            SlotWrittenBefore(i) ==
                \E j \in 1..(i - 1) :
                    effects[j].eff = "setItem" /\ effects[j].key = k /\ effects[j].value = v
            StampWrittenBefore(i) ==
                \E j \in 1..(i - 1) :
                    /\ effects[j].eff = "setItem"
                    /\ effects[j].key = ControllerTimestampKey
                    /\ effects[j].value = NumToString(now)
        IN  /\ storage[k] = v
            /\ storage[ControllerTimestampKey] = NumToString(now)
            /\ \E i \in 1..Len(effects) : effects[i].eff = "dispatch"
            /\ \A i \in 1..Len(effects) :
                  effects[i].eff = "dispatch" =>
                      /\ effects[i].key = k /\ effects[i].value = v
                      /\ SlotWrittenBefore(i)
                      /\ StampWrittenBefore(i)

\* a mirror ran after the clock had advanced
C8_Witness ==
    /\ last.ok /\ last.kind = "update"
    /\ now > 0
    /\ Dispatched(StorageKey(last.obj), Stringify(transforms[last.obj]))

\* C10: a connection poll reports connected when less than 5000 ms have
\* passed since the main application's timestamp, and disconnected otherwise.
C10_PollReportsStaleness ==
    last.kind = "poll" =>
        connectionStatus =
            IF /\ storage[MainPageTimestampKey] # <<>>
               /\ now - ParseInt(storage[MainPageTimestampKey]) < 5000
            THEN "connected" ELSE "disconnected"

\* a poll ran exactly 5000 ms after the timestamp, following a connected one
C10_Witness ==
    /\ last.kind = "poll"
    /\ storage[MainPageTimestampKey] # <<>>
    /\ now - ParseInt(storage[MainPageTimestampKey]) = 5000
    /\ connectionStatus = "disconnected"

\* a poll ran less than 5000 ms after the timestamp
C10_WitnessConnected ==
    /\ last.kind = "poll"
    /\ storage[MainPageTimestampKey] # <<>>
    /\ now - ParseInt(storage[MainPageTimestampKey]) = 4000
    /\ connectionStatus = "connected"

ExportedAndPasted(o, body) ==
    /\ clipboard # NoText
    /\ body \in DocIds
    /\ Documents[body] = ParseJSON(clipboard)
    /\ o \in MemberNames(clipboard)
    /\ MemberText(clipboard, o) = Stringify(config[o])

\* C12: an import of object O that reads a document whose content is the
\* text of an export of O with transform T succeeds and leaves O with a
\* transform equal to T.
C12_RoundTrip ==
    [][(last'.kind = "ctlImport" /\ ExportedAndPasted(last'.obj, last'.body))
          => (last'.ok /\ config'[last'.obj] = config[last'.obj])]_vars

\* the controllers' export: the text exportToConfig built from the document
\* body it read and the transform it was given has every section of that
\* document, object o's section being the transform
ControllerExportText(text, o, transform, body) ==
    /\ MemberNames(text) = DOMAIN Documents[body] \cup {o}
    /\ MemberText(text, o) = Stringify(transform)
    /\ \A p \in MemberNames(text) \ {o} :
          MemberText(text, p) = Stringify(Documents[body][p])

\* the studio's export: the text has the four sections, and all but the
\* exported object's are the document's
StudioExportText(text, d) ==
    /\ MemberNames(text) = Objects
    /\ \E o \in Objects : \A p \in Objects \ {o} :
          /\ HasKey(d, p)
          /\ MemberText(text, p) = Stringify(Documents[d][p])

\* C13: the text an export produces is the whole document, with the exported
\* object's section being the given transform and every other object's
\* section being that object's section of the configuration document at the
\* time of the export.
C13_ExportIsDocumentWithSection ==
    [][/\ last'.kind = "fetched" =>
            \A i \in 1..Len(inflight) :
                (inflight[i].stage = "served" /\ inflight'[i].stage = "writing") =>
                    ControllerExportText(inflight'[i].payload, inflight[i].obj,
                                         inflight[i].payload, inflight[i].body)
       /\ (last'.kind = "export" /\ last'.ok) => StudioExportText(clipboard', doc)]_vars

Indicated == \E i \in 1..Len(effects) : effects[i].eff = "indicator"
Reported == \E i \in 1..Len(effects) : effects[i].eff \in {"alert", "return"}

\* C14: a COPIED / EXPORTED indicator is shown only by a step in which the
\* clipboard write completed successfully, and a step in which the clipboard
\* write failed reports the failure to its caller.
C14_ClipboardFailureNotSwallowed ==
    /\ Indicated =>
          (last.ok /\ last.kind \in {"export", "ctlExport", "copySettled"}
                   /\ clipboard # NoText)
    /\ (~last.ok /\ last.cause = "clipboard") => Reported

\* C15: when two successful resets of an object follow each other with no
\* other write to the object and both read the same document, the object's
\* transform after the second is its transform after the first.
C15_ResetIdempotent ==
    \A o \in Objects :
        LET r == hist[o].resets
        IN  (Len(r) = 2 /\ r[1].body = r[2].body) =>
                /\ r[2].result = r[1].result
                /\ (last.kind = "reset" /\ last.ok /\ last.obj = o)
                      => transforms[o] = r[1].result

\* the fuel sensor was reset twice in a row against the edited document
C15_Witness ==
    /\ last.kind = "reset" /\ last.ok /\ last.obj = "fuelSensor"
    /\ Len(hist["fuelSensor"].resets) = 2
    /\ hist["fuelSensor"].resets[1].body = hist["fuelSensor"].resets[2].body
    /\ transforms["fuelSensor"] = EditedConfig.fuelSensor

\* C16: when a storage write fails during the mirror of an update or reset,
\* the store is still there and holds the transform that was being mirrored.
C16_StoreSurvivesStorageFailure ==
    (last.kind \in {"update", "reset"} /\ last.cause = "storage") =>
        /\ page = "studio"
        /\ \A i \in 1..Len(effects) :
              effects[i].eff = "throw" =>
                  Stringify(transforms[last.obj]) = effects[i].value

\* the operation at position i of the operations in flight completed in this
\* step and every other one is still in flight, as it was
OthersStayInFlight ==
    \E i \in 1..Len(inflight) :
        /\ Len(inflight') = Len(inflight) - 1
        /\ \A j \in 1..Len(inflight') :
              LET old == IF j < i THEN inflight[j] ELSE inflight[j + 1]
              IN  /\ inflight'[j].kind = old.kind /\ inflight'[j].obj = old.obj
                  /\ inflight'[j].stage = old.stage /\ inflight'[j].body = old.body

\* C17: a load, import or reset that completes sets every object it writes
\* to the section of the document it read, whatever an operation that
\* overlapped it wrote before, and leaves the operations still in flight to
\* complete on their own.
C17_LastCompletionWins ==
    [][(last'.kind \in {"load", "import", "reset"} /\ last'.cause \in {"none", "storage"})
          => /\ \A o \in (IF last'.kind = "reset" THEN {last'.obj} ELSE Objects) :
                    transforms'[o] = Documents[last'.body][o]
             /\ OthersStayInFlight]_vars

\* an import completed after a reset that overlapped it had written the fuel
\* sensor from another content of the document
C17_Witness ==
    /\ last.kind = "import" /\ last.ok /\ last.raced
    /\ storage[StorageKey("fuelSensor")] # NoText
    /\ storage[StorageKey("fuelSensor")] # Stringify(Documents[last.body]["fuelSensor"])
    /\ transforms["fuelSensor"] = Documents[last.body]["fuelSensor"]

\* a reset completed after an import that overlapped it
C17_WitnessReset ==
    /\ last.kind = "reset" /\ last.ok /\ last.raced
    /\ \E p \in Objects \ {last.obj} : transforms[p] # Documents[last.body][p]
    /\ transforms[last.obj] = Documents[last.body][last.obj]

\* no update and no other document operation has written the store
StoreUntouched ==
    \A o \in Objects :
        hist[o].base = InitialTransforms[o] /\ hist[o].named = NoFields

\* C18: an initial load that fails (the fetch, the parse, or a section
\* missing from the document) changes no transform and raises no alert or
\* other effect, so a store nothing else has written holds the bundled
\* defaults of the four objects.
C18_FailedLoadKeepsDefaults ==
    /\ [][(last'.kind = "load" /\ ~last'.ok)
            => (transforms' = transforms /\ effects' = NoEffects /\ page' = page)]_vars
    /\ []((last.kind = "load" /\ ~last.ok /\ StoreUntouched)
            => (transforms = FromConfig(BundledConfig) /\ ~Alerted))

\* the initial load failed at its fetch while the document held other values
\* than the bundled defaults
C18_Witness ==
    /\ last.kind = "load" /\ ~last.ok /\ last.cause = "fetch"
    /\ doc = 2
    /\ transforms = FromConfig(BundledConfig)
    /\ transforms # FromConfig(Documents[doc])

\* the initial load failed after the user had moved a slider
C18_WitnessUpdated ==
    /\ last.kind = "load" /\ ~last.ok
    /\ \E o \in Objects : hist[o].named # NoFields

\* C19: every read of the document (by the initial load, an import, an
\* export or a reset) is answered with the document's content at the time
\* of the read, or fails.
C19_ReadsAreFresh ==
    [][last'.kind = "serve" =>
          \A i \in 1..Len(inflight) :
              (inflight[i].stage = "sent" /\ inflight'[i].stage = "served")
                  => inflight'[i].body \in {doc, FetchFailed}]_vars

\* C20: one update or reset dispatches at most one change notification for
\* the object's slot.
C20_NotifiedAtMostOnce ==
    last.kind \in {"update", "reset"} =>
        Cardinality({i \in 1..Len(effects) :
                        effects[i].eff = "dispatch"
                        /\ effects[i].key = StorageKey(last.obj)}) <= 1

\* the numeric members of a transform
NumbersOf(t) ==
    UNION {IF HoldsArray(t, f) THEN Range(t[f]) ELSE {t[f]} : f \in DOMAIN t \ {"visible"}}

Abs(v) == IF v < 0 THEN 0 - v ELSE v

\* D * pi / 180 to the nearest 1e-8 rad, for the angles of RotationTexts
RadiansOf(degrees) ==
    CASE degrees = -180000000 -> -314159265
      [] degrees = 0          -> 0
      [] degrees = 12345678   -> 21547273
      [] degrees = 180000000  -> 314159265

C21_WitnessNegative ==
    /\ last.kind = "update" /\ last.ok
    /\ input.field = "rotation" /\ input.value = -180000000
    /\ RotationText(rendered[last.obj], input.index) = -180000000

\* C24: a change of one component of the position through ObjectControls
\* leaves the other components of the stored position as they were in the
\* store immediately before the change, also when the component has not
\* rendered the store's state yet.
C24_ChangeTouchesOneIndex ==
    [][(last'.kind = "update" /\ last'.ok /\ input'.field = "position") =>
          \A j \in Indices \ {input'.index} :
              transforms'[last'.obj].position[j] = transforms[last'.obj].position[j]]_vars

\* C25: a reset replaces the object named when the Reset button was pressed
\* (the tab active then) by its section of the document read, whatever tab
\* is active when it completes, and leaves every other object, with the
\* updates applied to it in the meantime, as it was.
C25_ResetNamesItsObject ==
    /\ [][last'.kind = "request" =>
            /\ Len(inflight') = Len(inflight) + 1
            /\ inflight'[Len(inflight')].obj = activeObject]_vars
    /\ [][(last'.kind = "reset" /\ last'.cause \in {"none", "storage"}) =>
            /\ transforms'[last'.obj] = Documents[last'.body][last'.obj]
            /\ \A p \in Objects \ {last'.obj} : transforms'[p] = transforms[p]]_vars

\* a reset completed on another tab than the one it was started on, after a
\* position of the object of that other tab was changed
C25_Witness ==
    /\ last.kind = "reset" /\ last.ok
    /\ activeObject # last.obj
    /\ input.field = "position"
    /\ "position" \in DOMAIN hist[activeObject].named
    /\ transforms[activeObject].position[input.index] = input.value
    /\ transforms[last.obj] = Documents[last.body][last.obj]

\* C28: after any sequence of slider and number-field edits, also of a
\* number field whose text is no number, no numeric member of a transform
\* is NaN.
C28_NoNaN ==
    \A o \in Objects : NaN \notin NumbersOf(transforms[o]) \cup NumbersOf(config[o])

\* the label a successful step of the panel shows
LabelOf(l) == IF l.kind = "export" THEN "exported" ELSE "imported"
ShownNext(label) == IF label = "exported" THEN exported' ELSE imported'

\* C22: each successful export or import shows its label and schedules a
\* reset of it 2000 ms later, leaving every reset that is already scheduled
\* as it is; a reset runs once it is due, and every label that is shown is
\* eventually cleared.
C22_LabelsResetIndependently ==
    /\ [][(last'.kind \in {"export", "import"} /\ last'.ok) =>
            /\ ShownNext(LabelOf(last'))
            /\ timers' = Append(timers, [label |-> LabelOf(last'), at |-> now + 2000])]_vars
    /\ [](\A k \in 1..Len(timers) : now - timers[k].at < TickMs)
    /\ [][last'.kind = "timeout" =>
            /\ timers # NoTimers /\ timers' = Tail(timers)
            /\ last'.obj = Head(timers).label
            /\ now >= Head(timers).at
            /\ ~ShownNext(last'.obj)]_vars
    /\ (exported ~> ~exported)
    /\ (imported ~> ~imported)

\* a second export succeeded while the reset of the first was pending, and
\* that reset has run since and cleared the label the second one showed
C22_Witness ==
    /\ last.kind = "timeout" /\ last.obj = "exported"
    /\ ~exported
    /\ Len(timers) = 1 /\ timers[1].label = "exported"
    /\ timers[1].at > now

\* C23: whenever no operation is in flight, every storage slot of an object
\* that has been written holds the serialisation of that object's current
\* in-memory transform.
C23_SlotsFollowStore ==
    (page = "studio" /\ inflight = NoOps) =>
        \A o \in Objects :
            storage[StorageKey(o)] # NoText =>
                storage[StorageKey(o)] = Stringify(transforms[o])

\* C26: a studio import either replaces the transforms of all four objects
\* by the sections of the document it read and returns true, or changes no
\* transform and returns false.
C26_ImportAllOrNothing ==
    [][last'.kind = "import" =>
          \/ /\ last'.ok
             /\ \A o \in Objects :
                   /\ HasKey(last'.body, o)
                   /\ transforms'[o] = Documents[last'.body][o]
          \/ /\ ~last'.ok
             /\ transforms' = transforms]_vars

\* an import failed on a document without a logo section, in a store whose
\* truck an update had changed
C26_Witness ==
    /\ last.kind = "import" /\ ~last.ok /\ last.cause = "key"
    /\ ~HasKey(last.body, "logo")
    /\ "position" \in DOMAIN hist["truck"].named
    /\ transforms["truck"] # Documents[last.body]["truck"]

\* an import replaced the four objects by the sections of a document in
\* which a section lacks a member
C26_WitnessPartial ==
    /\ last.kind = "import" /\ last.ok
    /\ last.body \in PartialDocIds
    /\ transforms = [o \in Objects |-> Documents[last.body][o]]

\* C27: after any sequence of initial load, update, import and reset, the
\* in-memory transform of each object has every member of its shape,
\* whatever the document contains.
C27_ShapesComplete ==
    \A o \in Objects :
        /\ DOMAIN transforms[o] = Range(Shape(o))
        /\ DOMAIN config[o] = Range(Shape(o))

\* C29: the connection status follows the main application's timestamp
\* only: a step of the editor's own (an update or a reset with its mirror)
\* changes neither the status nor that timestamp, the status changes in a
\* poll only, and it is disconnected for as long as the main application
\* has written no timestamp.
C29_StatusFollowsMainPageOnly ==
    /\ [][last'.kind \in {"update", "reset"} =>
            /\ connectionStatus' = connectionStatus
            /\ storage'[MainPageTimestampKey] = storage[MainPageTimestampKey]]_vars
    /\ [][storage'[MainPageTimestampKey] # storage[MainPageTimestampKey]
            => last'.kind = "mainPage"]_vars
    /\ [][connectionStatus' # connectionStatus => last'.kind = "poll"]_vars
    /\ [](storage[MainPageTimestampKey] = NoText => connectionStatus = "disconnected")

\* the poll ran after a reset had mirrored at a later time than 0, with no
\* timestamp of the main application
C29_Witness ==
    /\ last.kind = "poll"
    /\ storage[MainPageTimestampKey] = NoText
    /\ storage[ControllerTimestampKey] # NoText
    /\ ParseInt(storage[ControllerTimestampKey]) > 0
    /\ \E o \in Objects : hist[o].resets # NoResets
    /\ connectionStatus = "disconnected"

\* a mirror ran while the status was connected
C29_WitnessConnected ==
    /\ last.kind \in {"update", "reset"} /\ last.ok
    /\ connectionStatus = "connected"
    /\ ParseInt(storage[ControllerTimestampKey]) > ParseInt(storage[MainPageTimestampKey])

====
